---- MODULE Spec2Model ----
(***************************************************************************)
(* Model of the simplicial-complex data model (data_exploration/data.py:   *)
(* Chain, Complex) and of the chain-level message passing exercised by     *)
(* mp/test_smp.py.                                                         *)
(*                                                                         *)
(* Tensors are sequences: a feature matrix is a sequence of rows, an       *)
(* adjacency index of shape [2, E] is the sequence of its E columns        *)
(* <<src, dst>> (what `.numpy().T` iterates over), a mapping of shape      *)
(* [n, k+1] is the sequence of its n rows.  Simplex ids are 0-based as in  *)
(* the code, so row s of a tensor t is t[s + 1].                           *)
(***************************************************************************)
EXTENDS Integers, Sequences, FiniteSets, TLC

VARIABLES chains, y, pc, err, rev_mappings, shared_faces, shared_cofaces, ret,
          cmp, args, out

complex_vars == <<chains, y, err, rev_mappings, shared_faces, shared_cofaces, ret>>

mp_vars == <<cmp, args, out>>

vars == <<chains, y, pc, err, rev_mappings, shared_faces, shared_cofaces, ret,
          cmp, args, out>>

(***************************************************************************)
(* Bounds of the model.                                                    *)
(***************************************************************************)
NumNodes == 4
QueryPad == 1
MaxSimplices == 2
MaxLinks == 2
MaxScale == 1
MaxMsgSize == 2

(***************************************************************************)
(* Program constants.                                                      *)
(***************************************************************************)
min_order == 0
max_order == 2

(***************************************************************************)
(* Python's None and a present value.                                      *)
(***************************************************************************)
None == [some |-> FALSE]
Some(v) == [some |-> TRUE, val |-> v]
IsNone(o) == ~o.some

(***************************************************************************)
(* Chain.__init__: the fields a chain stores.                              *)
(***************************************************************************)
Chain(order, x, upper_index, lower_index, cy, mapping, upper_adjs) ==
    [order |-> order, x |-> x, upper_index |-> upper_index,
     lower_index |-> lower_index, y |-> cy, mapping |-> mapping,
     upper_adjs |-> upper_adjs]

(***************************************************************************)
(* set(row.numpy().tolist()) and tuple(sorted(S)).                         *)
(***************************************************************************)
NodeSet(row) == {row[i] : i \in DOMAIN row}

RECURSIVE SortedTuple(_)
SortedTuple(S) ==
    IF S = {} THEN <<>>
    ELSE LET m == CHOOSE n \in S : \A k \in S : n <= k
         IN <<m>> \o SortedTuple(S \ {m})

(***************************************************************************)
(* Outcome of a computation that may raise: err = "none" and a value, or   *)
(* the name of the Python exception that ends it.                          *)
(***************************************************************************)
Ok(v) == [err |-> "none", val |-> v]
Raise(e) == [err |-> e]

(***************************************************************************)
(* _consolidate, lines 97-103: the reverse mapping of one order.  The key  *)
(* is the mapping row as listed; a later row with the same tuple           *)
(* overwrites an earlier one.                                              *)
(***************************************************************************)
RevKey(current_map, key) == current_map[key + 1]

RevMap(current_map) ==
    [t \in {RevKey(current_map, key) : key \in 0..(Len(current_map) - 1)} |->
        CHOOSE key \in 0..(Len(current_map) - 1) :
            /\ RevKey(current_map, key) = t
            /\ \A k2 \in 0..(Len(current_map) - 1) :
                   RevKey(current_map, k2) = t => k2 <= key]

RevMappings(ch) ==
    [order \in min_order..max_order |-> RevMap(ch[order].mapping)]

(***************************************************************************)
(* Variant of SharedFaceKey: set difference in place of intersection.      *)
(***************************************************************************)
SharedFaceKeyDifference(upper_chain, link) ==
    LET nodes_a == NodeSet(upper_chain.mapping[link[1] + 1])
        nodes_b == NodeSet(upper_chain.mapping[link[2] + 1])
    IN SortedTuple(nodes_a \ nodes_b)

(***************************************************************************)
(* _consolidate, lines 111-116: the key looked up for one lower link.      *)
(***************************************************************************)
SharedFaceKey(upper_chain, link) ==
    LET nodes_a == NodeSet(upper_chain.mapping[link[1] + 1])
        nodes_b == NodeSet(upper_chain.mapping[link[2] + 1])
    IN SortedTuple(nodes_a \cap nodes_b)

(***************************************************************************)
(* Variants of SharedFacesOf: a link whose face is unknown is skipped;     *)
(* an absent lower_index is read as an empty one.                          *)
(***************************************************************************)
SharedFacesOfSkipping(upper_chain, rev) ==
    IF IsNone(upper_chain.lower_index) THEN Raise("AttributeError")
    ELSE LET lower == upper_chain.lower_index.val
             Known(l) == SharedFaceKey(upper_chain, l) \in DOMAIN rev
             kept == SelectSeq(lower, Known)
         IN Ok([i \in DOMAIN kept |-> rev[SharedFaceKey(upper_chain, kept[i])]])

SharedFacesOfLenient(upper_chain, rev) ==
    LET lower == IF IsNone(upper_chain.lower_index) THEN <<>>
                 ELSE upper_chain.lower_index.val
    IN IF \E i \in DOMAIN lower :
              SharedFaceKey(upper_chain, lower[i]) \notin DOMAIN rev
       THEN Raise("KeyError")
       ELSE Ok([i \in DOMAIN lower |->
                   rev[SharedFaceKey(upper_chain, lower[i])]])

(***************************************************************************)
(* _consolidate, lines 108-117: shared_faces[order+1].                     *)
(***************************************************************************)
SharedFacesOf(upper_chain, rev) ==
    IF IsNone(upper_chain.lower_index) THEN Raise("AttributeError")
    ELSE LET lower == upper_chain.lower_index.val
         IN IF \E i \in DOMAIN lower :
                   SharedFaceKey(upper_chain, lower[i]) \notin DOMAIN rev
            THEN Raise("KeyError")
            ELSE Ok([i \in DOMAIN lower |->
                        rev[SharedFaceKey(upper_chain, lower[i])]])

(***************************************************************************)
(* Variant of SharedCofaceOf: the two endpoints swapped in the upper_adjs  *)
(* lookup.                                                                 *)
(***************************************************************************)
SharedCofaceOfSwapped(current_chain, rev_up, link) ==
    LET nodes_a == current_chain.mapping[link[1] + 1]
        nodes_b == current_chain.mapping[link[2] + 1]
    IN IF IsNone(current_chain.upper_adjs) THEN Raise("TypeError")
       ELSE LET adjs == current_chain.upper_adjs.val
            IN IF nodes_b \notin DOMAIN adjs THEN Raise("KeyError")
               ELSE IF nodes_a \notin DOMAIN adjs[nodes_b] THEN Raise("KeyError")
               ELSE IF adjs[nodes_b][nodes_a] \notin DOMAIN rev_up
                    THEN Raise("KeyError")
               ELSE Ok(rev_up[adjs[nodes_b][nodes_a]])

(***************************************************************************)
(* _consolidate, lines 121-126: the coface lookup for one upper link.      *)
(***************************************************************************)
SharedCofaceOf(current_chain, rev_up, link) ==
    LET nodes_a == current_chain.mapping[link[1] + 1]
        nodes_b == current_chain.mapping[link[2] + 1]
    IN IF IsNone(current_chain.upper_adjs) THEN Raise("TypeError")
       ELSE LET adjs == current_chain.upper_adjs.val
            IN IF nodes_a \notin DOMAIN adjs THEN Raise("KeyError")
               ELSE IF nodes_b \notin DOMAIN adjs[nodes_a] THEN Raise("KeyError")
               ELSE IF adjs[nodes_a][nodes_b] \notin DOMAIN rev_up
                    THEN Raise("KeyError")
               ELSE Ok(rev_up[adjs[nodes_a][nodes_b]])

(***************************************************************************)
(* _consolidate, lines 118-127: shared_cofaces[order].  The first link     *)
(* whose lookup raises ends the loop.                                      *)
(***************************************************************************)
SharedCofacesOf(current_chain, rev_up) ==
    IF IsNone(current_chain.upper_index) THEN Raise("AttributeError")
    ELSE LET upper == current_chain.upper_index.val
             bad == {i \in DOMAIN upper :
                        SharedCofaceOf(current_chain, rev_up, upper[i]).err # "none"}
         IN IF bad # {}
            THEN LET first == CHOOSE i \in bad : \A j \in bad : i <= j
                 IN Raise(SharedCofaceOf(current_chain, rev_up, upper[first]).err)
            ELSE Ok([i \in DOMAIN upper |->
                        SharedCofaceOf(current_chain, rev_up, upper[i]).val])

(***************************************************************************)
(* _consolidate, lines 95-132.  The loop runs order = 0, 1 and at each     *)
(* order first the faces of chain order+1, then the cofaces of chain       *)
(* order; the first exception leaves the constructor.                      *)
(***************************************************************************)
Consolidate(ch) ==
    LET rev == RevMappings(ch)
        f1 == SharedFacesOf(ch[1], rev[0])
        c0 == SharedCofacesOf(ch[0], rev[1])
        f2 == SharedFacesOf(ch[2], rev[1])
        c1 == SharedCofacesOf(ch[1], rev[2])
    IN IF f1.err # "none" THEN [err |-> f1.err, rev |-> rev]
       ELSE IF c0.err # "none" THEN [err |-> c0.err, rev |-> rev]
       ELSE IF f2.err # "none" THEN [err |-> f2.err, rev |-> rev]
       ELSE IF c1.err # "none" THEN [err |-> c1.err, rev |-> rev]
       ELSE [err |-> "none", rev |-> rev,
             shared_faces |-> (1 :> f1.val @@ 2 :> f2.val),
             shared_cofaces |-> (0 :> c0.val @@ 1 :> c1.val)]

(***************************************************************************)
(* Variant of IndexSelect: the features returned without the selection.    *)
(***************************************************************************)
IndexSelectAll(features, index) == Ok(features)

(***************************************************************************)
(* torch.index_select(features, 0, index): one output row per index entry. *)
(***************************************************************************)
IndexSelect(features, index) ==
    IF \E i \in DOMAIN index : index[i] + 1 \notin DOMAIN features
    THEN Raise("IndexError")
    ELSE Ok([i \in DOMAIN index |-> features[index[i] + 1]])

(***************************************************************************)
(* Variant of InChains: the top order left out.                            *)
(***************************************************************************)
InChainsBelowTop(order) == order \in DOMAIN chains /\ order < max_order

(***************************************************************************)
(* `order in self.chains`, lines 139 and 175.                              *)
(***************************************************************************)
InChains(order) == order \in DOMAIN chains

(***************************************************************************)
(* Variant of UpperSide: at the top order the chain's own upper_index is   *)
(* returned.                                                               *)
(***************************************************************************)
UpperSideStored(order) ==
    IF order < max_order
    THEN LET upper_features == chains[order + 1].x
         IN IF ~IsNone(upper_features)
            THEN LET sel == IndexSelect(upper_features.val,
                                        shared_cofaces.val[order])
                 IN IF sel.err # "none" THEN Raise(sel.err)
                    ELSE Ok(<<chains[order].upper_index, Some(sel.val)>>)
            ELSE Ok(<<chains[order].upper_index, None>>)
    ELSE Ok(<<chains[order].upper_index, None>>)

(***************************************************************************)
(* get_inputs, lines 142-150 and 151-158: one side of the result, as the   *)
(* pair <<index, features>>.                                               *)
(***************************************************************************)
UpperSide(order) ==
    IF order < max_order
    THEN LET upper_features == chains[order + 1].x
         IN IF ~IsNone(upper_features)
            THEN LET sel == IndexSelect(upper_features.val,
                                        shared_cofaces.val[order])
                 IN IF sel.err # "none" THEN Raise(sel.err)
                    ELSE Ok(<<chains[order].upper_index, Some(sel.val)>>)
            ELSE Ok(<<chains[order].upper_index, None>>)
    ELSE Ok(<<None, None>>)

LowerSide(order) ==
    IF order > min_order
    THEN LET lower_features == chains[order - 1].x
         IN IF ~IsNone(lower_features)
            THEN LET sel == IndexSelect(lower_features.val,
                                        shared_faces.val[order])
                 IN IF sel.err # "none" THEN Raise(sel.err)
                    ELSE Ok(<<chains[order].lower_index, Some(sel.val)>>)
            ELSE Ok(<<chains[order].lower_index, None>>)
    ELSE Ok(<<None, None>>)

(***************************************************************************)
(* get_inputs, lines 134-163.                                              *)
(***************************************************************************)
GetInputsResult(order) ==
    IF InChains(order)
    THEN LET up == UpperSide(order)
             lo == LowerSide(order)
         IN IF up.err # "none" THEN Raise(up.err)
            ELSE IF lo.err # "none" THEN Raise(lo.err)
            ELSE Ok(<<chains[order].x, up.val[1], up.val[2],
                      lo.val[1], lo.val[2]>>)
    ELSE Raise("NotImplementedError")

(***************************************************************************)
(* get_labels, lines 165-180.  The argument is None when omitted.          *)
(***************************************************************************)
GetLabelsResult(order) ==
    IF IsNone(order) THEN Ok(y)
    ELSE IF InChains(order.val) THEN Ok(chains[order.val].y)
    ELSE Raise("NotImplementedError")

(***************************************************************************)
(* The complexes handed to the constructor.  A complex over the nodes      *)
(* 0..NumNodes-1 is given by a set of triangles {i, i+1, i+2} (a triangle  *)
(* strip) and, optionally, the edges {i, i+1} of the path through all      *)
(* nodes; simplices of one order are numbered in lexicographic order of    *)
(* their node tuples.  Its chains are then built the way Chain.__init__    *)
(* documents them (lines 8-27), and one defect may be applied to it (an    *)
(* unsorted mapping row, an absent or extended index, a wrong upper_adjs   *)
(* entry, a short feature matrix).  Labels are supplied for the chains     *)
(* that carry features.                                                    *)
(***************************************************************************)
Nodes == 0..(NumNodes - 1)

SimplicesOf(n) == {S \in SUBSET Nodes : Cardinality(S) = n}

RECURSIVE Rank(_)
Rank(t) ==
    IF Len(t) = 0 THEN 0
    ELSE t[Len(t)] + NumNodes * Rank(SubSeq(t, 1, Len(t) - 1))

RECURSIVE OrderedRows(_)
OrderedRows(SS) ==
    IF SS = {} THEN <<>>
    ELSE LET m == CHOOSE s \in SS :
                      \A t \in SS : Rank(SortedTuple(s)) <= Rank(SortedTuple(t))
         IN <<SortedTuple(m)>> \o OrderedRows(SS \ {m})

Reverse(row) == [i \in DOMAIN row |-> row[Len(row) + 1 - i]]

AllLinks(n) == [i \in 1..(n * n) |-> <<(i - 1) \div n, (i - 1) % n>>]

UpperLinks(m, m_up) ==
    LET Adjacent(l) ==
            /\ l[1] # l[2]
            /\ \E c \in DOMAIN m_up :
                   NodeSet(m[l[1] + 1]) \cup NodeSet(m[l[2] + 1]) \subseteq NodeSet(m_up[c])
    IN SelectSeq(AllLinks(Len(m)), Adjacent)

LowerLinks(m, order) ==
    LET Adjacent(l) ==
            /\ l[1] # l[2]
            /\ Cardinality(NodeSet(m[l[1] + 1]) \cap NodeSet(m[l[2] + 1])) = order
    IN SelectSeq(AllLinks(Len(m)), Adjacent)

CofaceRow(m_up, ra, rb) ==
    m_up[CHOOSE c \in DOMAIN m_up : NodeSet(ra) \cup NodeSet(rb) \subseteq NodeSet(m_up[c])]

UpperAdjs(m, m_up) ==
    LET links == UpperLinks(m, m_up)
        Nbrs(ra) == {m[links[i][2] + 1] : i \in {j \in DOMAIN links : m[links[j][1] + 1] = ra}}
    IN [ra \in {m[links[i][1] + 1] : i \in DOMAIN links} |->
           [rb \in Nbrs(ra) |-> CofaceRow(m_up, ra, rb)]]

Features(order, n) == [s \in 1..n |-> <<10 * order + s - 1>>]

Labels(order, n) == [s \in 1..n |-> 100 * order + s - 1]

Defect(kind, order, a, b) == [kind |-> kind, order |-> order, a |-> a, b |-> b]

NoDefect == Defect("none", 0, 0, 0)

Ids(m) == 0..(Len(m) - 1)

DefectsOf(m) ==
    {NoDefect}
    \cup {Defect("absent_upper", o, 0, 0) : o \in {0, 1}}
    \cup {Defect("absent_lower", o, 0, 0) : o \in {1, 2}}
    \cup {Defect("boundary_index", o, 0, 0) : o \in {0, 2}}
    \cup {Defect("short_x", o, 0, 0) : o \in {0, 1, 2}}
    \cup UNION {{Defect("reverse_row", o, a, 0) : a \in Ids(m[o])} : o \in {1, 2}}
    \cup UNION {{Defect("wrong_coface", o, 1, b) : b \in Ids(m[o + 1])} : o \in {0, 1}}
    \cup {Defect("unknown_coface", o, 1, 0) : o \in {0, 1}}
    \cup {Defect("missing_adj", o, 1, 0) : o \in {0, 1}}
    \cup UNION {{Defect("extra_lower", o, 0, b) : b \in Ids(m[o])} : o \in {1, 2}}
    \cup UNION {{Defect("extra_upper", o, 0, b) : b \in Ids(m[o])} : o \in {0, 1}}

BaseMappings(T, X) ==
    LET E == {e \in SimplicesOf(2) : \E t \in T : e \subseteq t} \cup X
    IN (0 :> [i \in 1..NumNodes |-> <<i - 1>>]
        @@ 1 :> OrderedRows(E)
        @@ 2 :> OrderedRows(T))

Mappings(base, d) ==
    [o \in DOMAIN base |->
        IF d.kind = "reverse_row" /\ d.order = o
        THEN [base[o] EXCEPT ![d.a + 1] = Reverse(@)]
        ELSE base[o]]

InputUpperIndex(m, o, d) ==
    IF o = 2
    THEN IF d.kind = "boundary_index" /\ d.order = o THEN Some(<<<<0, 0>>>>) ELSE None
    ELSE IF d.kind = "absent_upper" /\ d.order = o THEN None
    ELSE IF d.kind = "extra_upper" /\ d.order = o
         THEN Some(Append(UpperLinks(m[o], m[o + 1]), <<d.a, d.b>>))
    ELSE Some(UpperLinks(m[o], m[o + 1]))

InputLowerIndex(m, o, d) ==
    IF o = 0
    THEN IF d.kind = "boundary_index" /\ d.order = o THEN Some(<<<<0, 0>>>>) ELSE None
    ELSE IF d.kind = "absent_lower" /\ d.order = o THEN None
    ELSE IF d.kind = "extra_lower" /\ d.order = o
         THEN Some(Append(LowerLinks(m[o], o), <<d.a, d.b>>))
    ELSE Some(LowerLinks(m[o], o))

InputUpperAdjs(m, o, d) ==
    IF o = 2 THEN None
    ELSE LET adjs == UpperAdjs(m[o], m[o + 1])
             links == UpperLinks(m[o], m[o + 1])
             hit == d.order = o /\ d.a \in DOMAIN links
             ra == m[o][links[d.a][1] + 1]
             rb == m[o][links[d.a][2] + 1]
         IN IF hit /\ d.kind = "wrong_coface"
            THEN Some([adjs EXCEPT ![ra][rb] = m[o + 1][d.b + 1]])
            ELSE IF hit /\ d.kind = "unknown_coface"
            THEN Some([adjs EXCEPT ![ra][rb] = <<>>])
            ELSE IF hit /\ d.kind = "missing_adj"
            THEN Some([adjs EXCEPT ![ra] =
                          [r \in (DOMAIN adjs[ra]) \ {rb} |-> adjs[ra][r]]])
            ELSE Some(adjs)

InputX(m, o, d, featured) ==
    IF o \notin featured THEN None
    ELSE IF d.kind = "short_x" /\ d.order = o /\ Len(m[o]) > 0
    THEN Some(Features(o, Len(m[o]) - 1))
    ELSE Some(Features(o, Len(m[o])))

InputChains(T, X, d, featured) ==
    LET m == Mappings(BaseMappings(T, X), d)
    IN [o \in min_order..max_order |->
           Chain(o, InputX(m, o, d, featured), InputUpperIndex(m, o, d),
                 InputLowerIndex(m, o, d),
                 IF o \in featured THEN Some(Labels(o, Len(m[o]))) ELSE None,
                 m[o], InputUpperAdjs(m, o, d))]

TriangleSets == SUBSET {{i, i + 1, i + 2} : i \in 0..(NumNodes - 3)}

ExtraEdgeSets == {{}, {{i, i + 1} : i \in 0..(NumNodes - 2)}}

(***************************************************************************)
(* The state before Complex(nodes, edges, triangles, y) is called.         *)
(***************************************************************************)
Init ==
    /\ \E T \in TriangleSets : \E X \in ExtraEdgeSets :
         \E d \in DefectsOf(BaseMappings(T, X)) :
           \E featured \in SUBSET (min_order..max_order) :
              /\ chains = InputChains(T, X, d, featured)
              /\ y = IF featured # {} THEN Some(1) ELSE None
    /\ pc = "new"
    /\ err = "none"
    /\ rev_mappings = None
    /\ shared_faces = None
    /\ shared_cofaces = None
    /\ ret = [op |-> "none"]
    /\ cmp = None
    /\ args = None
    /\ out = None

(***************************************************************************)
(* Complex.__init__, lines 79-93: store the chains and consolidate.  When  *)
(* _consolidate raises, no Complex exists afterwards.                      *)
(***************************************************************************)
Construct ==
    /\ pc = "new"
    /\ LET c == Consolidate(chains)
       IN /\ rev_mappings' = Some(c.rev)
          /\ err' = c.err
          /\ IF c.err = "none"
             THEN /\ pc' = "constructed"
                  /\ shared_faces' = Some(c.shared_faces)
                  /\ shared_cofaces' = Some(c.shared_cofaces)
             ELSE /\ pc' = "failed"
                  /\ UNCHANGED <<shared_faces, shared_cofaces>>
    /\ UNCHANGED <<chains, y, ret>>
    /\ UNCHANGED mp_vars

QueryOrders == (min_order - QueryPad)..(max_order + QueryPad)

GetInputs ==
    /\ pc = "constructed"
    /\ \E order \in QueryOrders :
          ret' = [op |-> "get_inputs", order |-> Some(order),
                  res |-> GetInputsResult(order)]
    /\ UNCHANGED <<chains, y, pc, err, rev_mappings, shared_faces, shared_cofaces>>
    /\ UNCHANGED mp_vars

GetLabels ==
    /\ pc = "constructed"
    /\ \E order \in {None} \cup {Some(o) : o \in QueryOrders} :
          ret' = [op |-> "get_labels", order |-> order,
                  res |-> GetLabelsResult(order)]
    /\ UNCHANGED <<chains, y, pc, err, rev_mappings, shared_faces, shared_cofaces>>
    /\ UNCHANGED mp_vars

Next == Construct \/ GetInputs \/ GetLabels

Spec == Init /\ [][Next]_vars

(***************************************************************************)
(* ChainMessagePassing (mp/smp.py), as mp/test_smp.py calls it:            *)
(*   cmp = ChainMessagePassing(up_msg_size, down_msg_size)                 *)
(*   up_msg, down_msg = cmp.propagate(up_index, down_index, x=x,           *)
(*                                    up_attr=..., down_attr=...)          *)
(***************************************************************************)
Zeros(w) == [i \in 1..w |-> 0]

VecAdd(a, b) == [i \in DOMAIN a |-> a[i] + b[i]]

(***************************************************************************)
(* The default message: the feature row of the source simplex.             *)
(***************************************************************************)
Message(x_j, attr) == x_j

Messages(index, x, attr) ==
    [i \in DOMAIN index |->
        Message(x[index[i][1] + 1],
                IF IsNone(attr) THEN None ELSE Some(attr.val[i]))]

(***************************************************************************)
(* Variant of Aggregate: the maximum in place of the sum.                  *)
(***************************************************************************)
VecMax(a, b) == [i \in DOMAIN a |-> IF a[i] >= b[i] THEN a[i] ELSE b[i]]

RECURSIVE AggregateMax(_, _, _, _)
AggregateMax(msgs, index, i, acc) ==
    IF i > Len(index) THEN acc
    ELSE AggregateMax(msgs, index, i + 1,
                      [acc EXCEPT ![index[i][2] + 1] = VecMax(@, msgs[i])])

(***************************************************************************)
(* Aggregation: each message is added to the row of its destination.       *)
(***************************************************************************)
RECURSIVE Aggregate(_, _, _, _)
Aggregate(msgs, index, i, acc) ==
    IF i > Len(index) THEN acc
    ELSE Aggregate(msgs, index, i + 1,
                   [acc EXCEPT ![index[i][2] + 1] = VecAdd(@, msgs[i])])

(***************************************************************************)
(* Variant of PropagateSide: the rows start from the simplices' own        *)
(* features.                                                               *)
(***************************************************************************)
PropagateSideResidual(index, x, attr, msg_size) ==
    IF IsNone(index) THEN x
    ELSE Aggregate(Messages(index.val, x, attr), index.val, 1, x)

(***************************************************************************)
(* One kind of message (up or down): all-zero rows of the kind's width     *)
(* when the index is None, the aggregated messages otherwise.              *)
(***************************************************************************)
PropagateSide(index, x, attr, msg_size) ==
    IF IsNone(index) THEN [s \in DOMAIN x |-> Zeros(msg_size)]
    ELSE Aggregate(Messages(index.val, x, attr), index.val, 1,
                   [s \in DOMAIN x |-> Zeros(msg_size)])

PropagateResult(c, a) ==
    <<PropagateSide(a.up_index, a.x, a.up_attr, c.up_msg_size),
      PropagateSide(a.down_index, a.x, a.down_attr, c.down_msg_size)>>

Args(up_index, down_index, x, up_attr, down_attr) ==
    [up_index |-> up_index, down_index |-> down_index, x |-> x,
     up_attr |-> up_attr, down_attr |-> down_attr]

(***************************************************************************)
(* The scenarios of mp/test_smp.py.  torch.tensor([[srcs], [dsts]]) is     *)
(* written as the sequence of its columns.                                 *)
(***************************************************************************)
Columns(srcs, dsts) == [i \in DOMAIN srcs |-> <<srcs[i], dsts[i]>>]

Rows(values) == [i \in DOMAIN values |-> <<values[i]>>]

Channels == 1

HouseEdgeArgs ==
    Args(Some(Columns(<<0, 1, 0, 2, 1, 2>>,
                      <<1, 0, 2, 0, 2, 1>>)),
         Some(Columns(<<0, 1, 0, 2, 1, 2, 2, 3, 3, 4, 4, 5, 2, 5, 0, 3, 1, 5>>,
                      <<1, 0, 2, 0, 2, 1, 3, 2, 4, 3, 5, 4, 5, 2, 3, 0, 5, 1>>)),
         Rows(<<1, 2, 3, 4, 5, 6>>),
         Some(Rows(<<1, 1, 2, 2, 3, 3>>)),
         Some(Rows(<<1, 1, 2, 2, 3, 3, 4, 4, 5, 5, 6, 6, 7, 7, 8, 8, 9, 9>>)))

HouseEdgeExpected == Rows(<<14, 14, 16, 9, 10, 10>>)

HouseVertexArgs ==
    Args(Some(Columns(<<0, 1, 0, 4, 1, 2, 1, 4, 2, 3, 3, 4>>,
                      <<1, 0, 4, 0, 2, 1, 4, 1, 3, 2, 4, 3>>)),
         None,
         Rows(<<1, 2, 3, 4, 5>>),
         Some(Rows(<<1, 1, 2, 2, 3, 3, 4, 4, 5, 5, 6, 6>>)),
         None)

HouseVertexExpected == Rows(<<7, 9, 6, 8, 7>>)

SingleTriangleArgs == Args(None, None, Rows(<<1>>), None, None)

SingleTriangleExpected == Rows(<<0>>)

TwoTrianglesArgs ==
    Args(None, Some(Columns(<<0, 1>>, <<1, 0>>)), Rows(<<32, 17>>),
         None, Some(Rows(<<1, 1>>)))

TwoTrianglesExpected == Rows(<<17, 32>>)

TestArgs == {HouseEdgeArgs, HouseVertexArgs, SingleTriangleArgs, TwoTrianglesArgs}

TestCmp == [up_msg_size |-> 1, down_msg_size |-> 1]

(***************************************************************************)
(* Bounded inputs of propagate: up to MaxSimplices rows of features (row   *)
(* s holds c * (s + 1) for a scale c in 0..MaxScale), an index that is     *)
(* None or lists up to MaxLinks links between those rows (empty and        *)
(* duplicate links included), edge attributes absent or one row per link.  *)
(* One of the two indices ranges over all such lists, the other over None, *)
(* the empty list and the link 0 -> 0.                                     *)
(***************************************************************************)
SeqsUpTo(S, n) == UNION {[1..k -> S] : k \in 0..n}

FeatureMatrices(n) == {[s \in 1..n |-> <<c * s>>] : c \in 0..MaxScale}

AnyIndex(n) ==
    {None} \cup {Some(l) : l \in SeqsUpTo((0..(n - 1)) \X (0..(n - 1)), MaxLinks)}

PlainIndex == {None, Some(<<>>), Some(<<<<0, 0>>>>)}

AttrFor(index, with_attr) ==
    IF IsNone(index) \/ ~with_attr THEN None
    ELSE Some([i \in DOMAIN index.val |-> <<i>>])

IndexPairs(n) == (AnyIndex(n) \X PlainIndex) \cup (PlainIndex \X AnyIndex(n))

(***************************************************************************)
(* The widths a ChainMessagePassing is constructed with: the width of the  *)
(* messages of a kind whose index is given, any width up to MaxMsgSize for *)
(* a kind whose index is None.                                             *)
(***************************************************************************)
MsgSizes(index) == IF IsNone(index) THEN 1..MaxMsgSize ELSE {Channels}

InitMP ==
    /\ \/ \E n \in 1..MaxSimplices : \E p \in IndexPairs(n) :
            \E x \in FeatureMatrices(n) : \E w \in BOOLEAN :
              /\ args = Some(Args(p[1], p[2], x, AttrFor(p[1], w), AttrFor(p[2], w)))
              /\ \E u \in MsgSizes(p[1]), d \in MsgSizes(p[2]) :
                    cmp = Some([up_msg_size |-> u, down_msg_size |-> d])
       \/ \E a \in TestArgs :
            /\ args = Some(a)
            /\ cmp = Some(TestCmp)
    /\ out = None
    /\ pc = "mp"
    /\ chains = <<>>
    /\ y = None
    /\ err = "none"
    /\ rev_mappings = None
    /\ shared_faces = None
    /\ shared_cofaces = None
    /\ ret = [op |-> "none"]

Propagate ==
    /\ pc = "mp"
    /\ out' = Some(PropagateResult(cmp.val, args.val))
    /\ UNCHANGED <<cmp, args, pc>>
    /\ UNCHANGED complex_vars

NextMP == Propagate

SpecMP == InitMP /\ [][NextMP]_vars

(***************************************************************************)
(* Properties.                                                             *)
(***************************************************************************)
Queried(op) == pc = "constructed" /\ ret.op = op

Returned(op) == Queried(op) /\ ret.res.err = "none"

RowAt(order, id) == chains[order].mapping[id + 1]

Link(order, which, i) ==
    IF which = "upper" THEN chains[order].upper_index.val[i]
    ELSE chains[order].lower_index.val[i]

\* C1: get_inputs(order) and get_labels(order) end in NotImplementedError,
\* without a value, exactly for the orders outside [min_order, max_order];
\* get_labels() with the order omitted never raises it.
C1_UnsupportedOrder ==
    (Queried("get_inputs") \/ Queried("get_labels")) =>
        IF IsNone(ret.order)
        THEN ret.res.err # "NotImplementedError"
        ELSE /\ (ret.res.err = "NotImplementedError")
                    <=> (ret.order.val \notin min_order..max_order)
             /\ ret.res.err = "NotImplementedError" => "val" \notin DOMAIN ret.res

C1_Witness ==
    /\ Queried("get_labels")
    /\ ~IsNone(ret.order)
    /\ ret.order.val = max_order + 1
    /\ ret.res.err = "NotImplementedError"

\* C2: the upper features get_inputs(k) returns have one row per link of
\* the order-k upper_index, row i being the feature row of the order-(k+1)
\* chain at id shared_cofaces[k][i]; the lower features likewise with the
\* lower_index, the order-(k-1) chain and shared_faces[k].
C2_FeatureAlignment ==
    Returned("get_inputs") =>
        LET k == ret.order.val
            v == ret.res.val
        IN /\ ~IsNone(v[3]) =>
                /\ ~IsNone(chains[k].upper_index)
                /\ Len(v[3].val) = Len(chains[k].upper_index.val)
                /\ \A i \in DOMAIN v[3].val :
                       v[3].val[i] = chains[k + 1].x.val[shared_cofaces.val[k][i] + 1]
           /\ ~IsNone(v[5]) =>
                /\ ~IsNone(chains[k].lower_index)
                /\ Len(v[5].val) = Len(chains[k].lower_index.val)
                /\ \A i \in DOMAIN v[5].val :
                       v[5].val[i] = chains[k - 1].x.val[shared_faces.val[k][i] + 1]

C2_Witness ==
    /\ Returned("get_inputs")
    /\ ret.order.val = 1
    /\ ~IsNone(ret.res.val[3]) /\ Len(ret.res.val[3].val) > 0
    /\ ~IsNone(ret.res.val[5]) /\ Len(ret.res.val[5].val) > 0
    /\ Len(ret.res.val[3].val) # Len(chains[2].x.val)

\* C3: after construction, for k in {1, 2}, shared_faces[k] has one entry
\* per link of the order-k lower_index, in the same order, and entry i is
\* the id of the order-(k-1) simplex whose node set is the intersection of
\* the node sets of the two simplices the link joins.
C3_SharedFaces ==
    pc = "constructed" =>
        \A k \in {1, 2} :
            /\ Len(shared_faces.val[k]) = Len(chains[k].lower_index.val)
            /\ \A i \in DOMAIN shared_faces.val[k] :
                   /\ shared_faces.val[k][i] \in Ids(chains[k - 1].mapping)
                   /\ NodeSet(RowAt(k - 1, shared_faces.val[k][i]))
                        = NodeSet(RowAt(k, Link(k, "lower", i)[1]))
                            \cap NodeSet(RowAt(k, Link(k, "lower", i)[2]))

C3_Witness ==
    /\ pc = "constructed"
    /\ Len(shared_faces.val[2]) > 0
    /\ Len(shared_faces.val[1]) > 0

ContainsEndpoints(k, i, coface_nodes) ==
    NodeSet(RowAt(k, Link(k, "upper", i)[1]))
        \cup NodeSet(RowAt(k, Link(k, "upper", i)[2])) \subseteq coface_nodes

AdjsEntry(k, i) ==
    chains[k].upper_adjs.val[RowAt(k, Link(k, "upper", i)[1])]
                            [RowAt(k, Link(k, "upper", i)[2])]

\* C4 as stated: after construction, for k in {0, 1}, shared_cofaces[k] has
\* one entry per link of the order-k upper_index and entry i is the id of
\* an order-(k+1) simplex whose node set contains both endpoints of link i.
C4_Original ==
    pc = "constructed" =>
        \A k \in {0, 1} :
            /\ Len(shared_cofaces.val[k]) = Len(chains[k].upper_index.val)
            /\ \A i \in DOMAIN shared_cofaces.val[k] :
                   ContainsEndpoints(k, i, NodeSet(RowAt(k + 1, shared_cofaces.val[k][i])))

\* C4 amended: after construction, for k in {0, 1}, shared_cofaces[k] has
\* one entry per link of the order-k upper_index, in the same order, and
\* entry i is the id of the order-(k+1) simplex whose mapping row is the
\* tuple upper_adjs gives for the link's endpoints, so that it contains
\* both endpoints when, and only when, that upper_adjs entry does.
C4_SharedCofaces ==
    pc = "constructed" =>
        \A k \in {0, 1} :
            /\ Len(shared_cofaces.val[k]) = Len(chains[k].upper_index.val)
            /\ \A i \in DOMAIN shared_cofaces.val[k] :
                   /\ shared_cofaces.val[k][i] \in Ids(chains[k + 1].mapping)
                   /\ RowAt(k + 1, shared_cofaces.val[k][i]) = AdjsEntry(k, i)

C4_Witness ==
    /\ pc = "constructed"
    /\ Len(shared_cofaces.val[0]) > 0
    /\ Len(shared_cofaces.val[1]) > 0
    /\ \E i \in DOMAIN shared_cofaces.val[1] :
           ~ContainsEndpoints(1, i, NodeSet(RowAt(2, shared_cofaces.val[1][i])))

RowsOf(order) == {RowAt(order, id) : id \in Ids(chains[order].mapping)}

NodeSetsOf(order) == {NodeSet(r) : r \in RowsOf(order)}

LowerLinksGiven(k) ==
    IF IsNone(chains[k].lower_index) THEN {} ELSE DOMAIN chains[k].lower_index.val

UpperLinksGiven(k) ==
    IF IsNone(chains[k].upper_index) THEN {} ELSE DOMAIN chains[k].upper_index.val

FaceNodes(k, i) ==
    NodeSet(RowAt(k, Link(k, "lower", i)[1])) \cap NodeSet(RowAt(k, Link(k, "lower", i)[2]))

HasAdjsEntry(k, i) ==
    /\ ~IsNone(chains[k].upper_adjs)
    /\ RowAt(k, Link(k, "upper", i)[1]) \in DOMAIN chains[k].upper_adjs.val
    /\ RowAt(k, Link(k, "upper", i)[2])
         \in DOMAIN chains[k].upper_adjs.val[RowAt(k, Link(k, "upper", i)[1])]

NoTables == IsNone(shared_faces) /\ IsNone(shared_cofaces)

(***************************************************************************)
(* An adjacency link claims a relation the mappings do not support.        *)
(***************************************************************************)
UnsupportedRelation ==
    \/ \E k \in {1, 2} : \E i \in LowerLinksGiven(k) :
           FaceNodes(k, i) \notin NodeSetsOf(k - 1)
    \/ \E k \in {0, 1} : \E i \in UpperLinksGiven(k) :
           \/ ~HasAdjsEntry(k, i)
           \/ NodeSet(AdjsEntry(k, i)) \notin NodeSetsOf(k + 1)
           \/ ~ContainsEndpoints(k, i, NodeSet(AdjsEntry(k, i)))

(***************************************************************************)
(* A link's face or coface tuple is no row of the adjacent order's         *)
(* mapping, or upper_adjs has no entry for the link.                       *)
(***************************************************************************)
UnresolvedTuple ==
    \/ \E k \in {1, 2} : \E i \in LowerLinksGiven(k) :
           SortedTuple(FaceNodes(k, i)) \notin RowsOf(k - 1)
    \/ \E k \in {0, 1} : \E i \in UpperLinksGiven(k) :
           \/ ~HasAdjsEntry(k, i)
           \/ AdjsEntry(k, i) \notin RowsOf(k + 1)

\* C5 as stated: whenever an adjacency link claims a relation the mappings
\* do not support (its face or coface is not the node set of a simplex of
\* the adjacent order, or the coface does not contain the link's
\* endpoints), construction ends in an error and leaves no tables.
C5_Original ==
    pc # "new" => (UnsupportedRelation => pc = "failed" /\ NoTables)

\* C5 amended: whenever the sorted face tuple of a lower link, or the tuple
\* upper_adjs gives for an upper link, is not a row of the adjacent order's
\* mapping, or upper_adjs has no entry for an upper link, construction ends
\* in an error and leaves no tables.  (An upper_adjs entry that names an
\* existing simplex not containing the link's endpoints is accepted.)
C5_FailsLoudly ==
    pc # "new" => (UnresolvedTuple => pc = "failed" /\ err # "none" /\ NoTables)

C5_Witness ==
    /\ pc = "failed"
    /\ err = "KeyError"
    /\ UnresolvedTuple
    /\ \E i \in LowerLinksGiven(2) : SortedTuple(FaceNodes(2, i)) \notin RowsOf(1)

\* C6: get_inputs(order) returns (x, upper_index, upper_features,
\* lower_index, lower_features) of the chain at that order; upper_features
\* is None exactly when order is max_order or the order+1 chain has no x,
\* lower_features is None exactly when order is min_order or the order-1
\* chain has no x; upper_index is None at max_order and lower_index is None
\* at min_order whatever the chain stores.
C6_InputsTuple ==
    Returned("get_inputs") =>
        LET k == ret.order.val
            v == ret.res.val
        IN /\ Len(v) = 5
           /\ v[1] = chains[k].x
           /\ IsNone(v[3]) <=> (k = max_order \/ IsNone(chains[k + 1].x))
           /\ IsNone(v[5]) <=> (k = min_order \/ IsNone(chains[k - 1].x))
           /\ IF k = max_order THEN IsNone(v[2]) ELSE v[2] = chains[k].upper_index
           /\ IF k = min_order THEN IsNone(v[4]) ELSE v[4] = chains[k].lower_index

C6_Witness ==
    /\ Returned("get_inputs")
    /\ ret.order.val = max_order
    /\ ~IsNone(chains[max_order].upper_index)
    /\ IsNone(ret.res.val[2])
    /\ IsNone(ret.res.val[3])
    /\ ~IsNone(ret.res.val[5])

\* C9 as stated: the reverse mapping of each order keys every simplex by
\* its sorted node tuple: looking up the sorted node set of mapping[s]
\* yields s, whatever the order of the node ids within the row.
C9_SortedKeys ==
    pc # "new" =>
        \A k \in min_order..max_order : \A s \in Ids(chains[k].mapping) :
            /\ SortedTuple(NodeSet(RowAt(k, s))) \in DOMAIN rev_mappings.val[k]
            /\ rev_mappings.val[k][SortedTuple(NodeSet(RowAt(k, s)))] = s

ReadIndexAbsent ==
    \/ IsNone(chains[0].upper_index)
    \/ IsNone(chains[1].upper_index)
    \/ IsNone(chains[1].lower_index)
    \/ IsNone(chains[2].lower_index)

WithoutBoundaryIndices(ch) ==
    [ch EXCEPT ![0].lower_index = None, ![2].upper_index = None]

C10_WitnessBoundary ==
    /\ pc = "constructed"
    /\ ~IsNone(chains[0].lower_index)

Propagated == pc = "mp" /\ ~IsNone(out)

Destinations(index) ==
    IF IsNone(index) THEN {} ELSE {index.val[i][2] : i \in DOMAIN index.val}

ZeroWhereNoMessage(msg, index, msg_size) ==
    /\ Len(msg) = Len(args.val.x)
    /\ \A d \in 0..(Len(args.val.x) - 1) :
           d \notin Destinations(index) => msg[d + 1] = Zeros(msg_size)

\* C7: up_msg and down_msg have one row per row of x; a simplex that is the
\* destination of no link of up_index (all of them when up_index is None)
\* has the zero row of width up_msg_size in up_msg, and likewise for
\* down_index, down_msg and down_msg_size.
C7_ZeroRows ==
    Propagated =>
        /\ ZeroWhereNoMessage(out.val[1], args.val.up_index, cmp.val.up_msg_size)
        /\ ZeroWhereNoMessage(out.val[2], args.val.down_index, cmp.val.down_msg_size)

C7_Witness ==
    /\ Propagated
    /\ IsNone(args.val.down_index)
    /\ cmp.val.down_msg_size = 2
    /\ Len(args.val.x) = 2
    /\ Destinations(args.val.up_index) = {1}
    /\ out.val[1][2] # Zeros(1)
    /\ out.val[1][1] = Zeros(1)

Scale(n, row) == [i \in DOMAIN row |-> n * row[i]]

Occurrences(index, s, d) == Cardinality({i \in DOMAIN index : index[i] = <<s, d>>})

RECURSIVE SumFromSources(_, _, _, _)
SumFromSources(index, x, d, s) ==
    IF s < 0 THEN Zeros(Channels)
    ELSE VecAdd(Scale(Occurrences(index, s, d), x[s + 1]),
                SumFromSources(index, x, d, s - 1))

SumsOfSources(msg, index) ==
    IsNone(index) \/
        \A d \in 0..(Len(args.val.x) - 1) :
            msg[d + 1] = SumFromSources(index.val, args.val.x, d, Len(args.val.x) - 1)

Total == [i \in DOMAIN out.val[1] |-> VecAdd(out.val[1][i], out.val[2][i])]

\* C8: with the default message, up_msg[d] is the sum of x[src] over every
\* position of up_index whose destination is d (a link listed twice counts
\* twice), and down_msg[d] the same over down_index, with or without edge
\* attributes; the scenarios of the tests give the totals they expect.
C8_SumAggregation ==
    Propagated =>
        /\ SumsOfSources(out.val[1], args.val.up_index)
        /\ SumsOfSources(out.val[2], args.val.down_index)
        /\ cmp.val = TestCmp =>
              /\ args.val = HouseEdgeArgs => Total = HouseEdgeExpected
              /\ args.val = HouseVertexArgs => Total = HouseVertexExpected
              /\ args.val = TwoTrianglesArgs => Total = TwoTrianglesExpected
              /\ args.val = SingleTriangleArgs => Total = SingleTriangleExpected

C8_Witness ==
    /\ Propagated
    /\ args.val = HouseEdgeArgs
    /\ Total = HouseEdgeExpected

C8_WitnessDuplicate ==
    /\ Propagated
    /\ args.val.up_index = Some(<<<<1, 0>>, <<1, 0>>>>)
    /\ ~IsNone(args.val.up_attr)
    /\ args.val.x = <<<<1>>, <<2>>>>
    /\ out.val[1] = <<<<4>>, <<0>>>>

====
